---- MODULE Spec2Model ----
(***************************************************************************)
(* Model of src/app.py: the bulk timesheet extraction service.             *)
(*                                                                         *)
(* Shared state: the two job tables (processing_status,                    *)
(* processing_results) and dashboard_metrics.  One background thread per   *)
(* accepted job runs process_files_bulk; request handler threads run       *)
(* process_bulk, get_status and download_result.  Threads interleave at    *)
(* the granularity of one access to a shared table (one statement of the   *)
(* source); purely local statements are folded into the step that follows. *)
(***************************************************************************)
EXTENDS Integers, Sequences, FiniteSets, TLC

\* ---------------------------------------------------------------- bounds
MaxJobs == 2          \* job ids that can be minted
MaxFiles == 2         \* files in one submission
MaxImages == 5        \* images embedded in one document
MaxHandlers == 2      \* concurrent request handler threads

\* ------------------------------------------------------- program constants
batch_size == 4       \* app.py:130

JobIds == 1..MaxJobs
UnknownId == 0        \* an id no submission ever receives
ReqIds == JobIds \cup {UnknownId}
Handlers == 1..MaxHandlers

\* A workload says how much of the bounds one run uses: how many jobs are
\* submitted, how many handler threads serve requests, how many files one
\* submission carries and how many images one document embeds.  Each
\* workload stretches one dimension to its bound.  Requests name the ids the
\* run can mint and UnknownId, which stands for every other id.  In a serial
\* workload a client submits again only after its earlier job was retrieved.
Workload(j, h, f, i) ==
  [jobs |-> j, handlers |-> h, files |-> f, images |-> i, serial |-> FALSE]

ManyFiles == Workload(1, 1, MaxFiles, 1)
ManyImages == Workload(1, 1, 1, MaxImages)
ManyHandlers == Workload(1, MaxHandlers, 1, 1)
ManyJobs == Workload(MaxJobs, 1, 1, 1)
NoImages == Workload(1, 1, MaxFiles, 0)
JobAfterJob == [Workload(MaxJobs, 1, 1, 1) EXCEPT !.serial = TRUE]

\* ------------------------------------------------------------- file names
\* A file name is its stem and its suffix; lower() acts on the suffix.
FileNames ==
  { [stem |-> "a", ext |-> ".docx"],
    [stem |-> "b", ext |-> ".DOC"],
    [stem |-> "c", ext |-> ".txt"] }

Lower(s) ==
  CASE s = ".DOC" -> ".doc"
    [] s = ".DOCX" -> ".docx"
    [] s = ".TXT" -> ".txt"
    [] OTHER -> s

\* every name passes the filter
AcceptedNameAnyExt(f) == TRUE

\* app.py:1062  file.filename.lower().endswith(('.docx', '.doc'))
AcceptedName(f) == Lower(f.ext) \in {".docx", ".doc"}

SeqsUpTo(S, n) == UNION { [1..k -> S] : k \in 0..n }

Submissions == SeqsUpTo(FileNames, MaxFiles)

\* ---------------------------------------------------------------- entries
\* An element of the JSON array the model returned.  kind says what the
\* code can do with it:
\*   ok        an object with a numeric 'hours' and a string status
\*   badhours  an object whose 'hours' is not a number (string, null)
\*   badstatus an object whose 'submission_status' is not a string (null)
\*   nondict   not an object (number, string, null, nested array)
\* job/file/batch record which inference call produced it.
EntryKinds == {"ok", "badhours", "badstatus", "nondict"}
FromModel == [stem |-> "model", ext |-> ""]

MkEntry(k, j, f, b) ==
  [kind |-> k, job |-> j, file |-> f, batch |-> b, hours |-> 1,
   source_file |-> FromModel]

IsDict(e) == e.kind # "nondict"
HoursIsNumber(e) == e.kind # "badhours"
StatusIsString(e) == e.kind # "badstatus"

\* --------------------------------------------------------------- responses
\* What one iteration of the batch loop can meet, described by what the code
\* of app.py:136-238 can observe of it:
\*   called  claude_client.messages.create was invoked (app.py:200); FALSE
\*           when image_to_base64 raised for an image of the batch
\*           (app.py:140), which leaves the try before the call
\*   raised  the encoding, or the call, raised: the batch is skipped at
\*           app.py:236-238
\*   strict  outcome of json.loads(response_text): a list, another JSON
\*           value, or JSONDecodeError
\*   match   outcome of re.search(r'\[.*?\]') followed by json.loads of the
\*           matched text: no match, a list, or JSONDecodeError (the matched
\*           text starts with '[', so when it parses it is a list)
\*   entries the elements of the list, when one of the two parses gave a list
ArrayShapes ==
  { <<>>, <<"ok">>, <<"badhours">>, <<"badstatus">>, <<"nondict">> }

MkEntries(shape, j, f, b) ==
  [k \in 1..Len(shape) |-> MkEntry(shape[k], j, f, b)]

NoEntries == <<>>

Responses(j, f, b) ==
  { [called |-> c, raised |-> TRUE, strict |-> "error", match |-> "none",
     entries |-> NoEntries] : c \in BOOLEAN }
  \cup
  { [called |-> TRUE, raised |-> FALSE, strict |-> "list", match |-> "none",
     entries |-> MkEntries(sh, j, f, b)] : sh \in ArrayShapes }
  \cup
  { [called |-> TRUE, raised |-> FALSE, strict |-> "nonlist",
     match |-> "none", entries |-> NoEntries] }
  \cup
  { [called |-> TRUE, raised |-> FALSE, strict |-> "error", match |-> m,
     entries |-> NoEntries] : m \in {"none", "error"} }
  \cup
  { [called |-> TRUE, raised |-> FALSE, strict |-> "error", match |-> "list",
     entries |-> MkEntries(<<"ok">>, j, f, b)] }

\* app.py:211-238  the entries one batch adds to all_entries
BatchEntries(r) ==
  IF r.raised THEN NoEntries
  ELSE IF r.strict = "list" THEN r.entries
  ELSE IF r.strict = "nonlist" THEN NoEntries
  ELSE IF r.match = "list" THEN r.entries
  ELSE NoEntries

\* the images of a document with n images, numbered in the order
\* extract_images_from_docx appended them (app.py:100-111)
Images(n) == [k \in 1..n |-> k]

\* a slice that takes one element too many
PySliceInclusive(s, a, b) ==
  SubSeq(s, a + 1, IF b + 1 < Len(s) THEN b + 1 ELSE Len(s))

\* app.py:133  images[i:i + batch_size]: the Python slice s[a:b], 0 <= a <= b
PySlice(s, a, b) == SubSeq(s, a + 1, IF b < Len(s) THEN b ELSE Len(s))

\* the model's source_file is kept when it gave one
TagKeepsModel(entries, filename) == entries

\* app.py:254-255  entry['source_file'] = filename, for a list of objects
Tag(entries, filename) ==
  [k \in 1..Len(entries) |-> [entries[k] EXCEPT !.source_file = filename]]

\* app.py:255  item assignment raises TypeError on anything but an object
TagRaises(entries) == \E k \in 1..Len(entries) : ~IsDict(entries[k])

\* app.py:361-373  create_excel_file raises when .lower() meets a non-string
RenderRaises(data) == \E k \in 1..Len(data) : ~StatusIsString(data[k])

\* ------------------------------------------------------------------- state
VARIABLES
  processing_status,   \* app.py:78   job id -> status record
  processing_results,  \* app.py:77   job id -> list of entries
  dashboard_metrics,   \* app.py:81-86
  temp_files,          \* temporary files on disk, named by <<job, file index>>
  task,                \* per job id: the locals of its process_files_bulk thread
  handler,             \* per handler thread: the locals of the request it serves
  downloaded,          \* history: ids whose spreadsheet a retrieval returned
  load,                \* the workload of this run (never changes)
  parser               \* the locals of one parse of a response text

vars == <<processing_status, processing_results, dashboard_metrics,
          temp_files, task, handler, downloaded, load, parser>>

NoFile == [stem |-> "", ext |-> ""]

\* Locals of a background thread.  pc "unborn": no thread for this id.
IdleTask ==
  [pc |-> "unborn", files |-> <<>>, idx |-> 0, images |-> 0, i |-> 0,
   all_entries |-> <<>>, log |-> <<>>, batches |-> <<>>, all_data |-> <<>>,
   reg |-> 0, k |-> 0, error |-> ""]

\* A response: the HTTP code, the 'error' text of a rejection, and the
\* fields of the JSON body the claims look at.
NoResp ==
  [code |-> 0, error |-> "", job_id |-> UnknownId, total_files |-> 0,
   status |-> "", total |-> 0, processed |-> 0, total_entries |-> 0,
   rows |-> 0]

\* Locals of a handler thread.  Six fields are history, written for the
\* properties only.  files: what a submission carried.  When the request
\* came in: status0 (the status of the
\* id's record, "absent" when there was none), stored0 (the length of its
\* stored result, -1 when there was none) and late (the id had already been
\* downloaded).  At the step that decided the response: seen and stored,
\* the same two readings.
IdleHandler ==
  [pc |-> "idle", op |-> "", job_id |-> UnknownId, data |-> <<>>,
   files |-> <<>>, status0 |-> "", stored0 |-> -1, late |-> FALSE,
   seen |-> "", stored |-> -1, resp |-> NoResp]

\* Locals of the parsing of one response (app.py:207-234).  Four fields are
\* history: kind and embedded (how the text was made), before (all_entries
\* when the response came) and scanned (re.search was called).  pc "idle":
\* no response is being parsed.
IdleParser ==
  [pc |-> "idle", response_text |-> <<>>, kind |-> "", embedded |-> <<>>,
   all_entries |-> <<>>, before |-> <<>>, scanned |-> FALSE]

Init ==
  /\ processing_status = << >>
  /\ processing_results = << >>
  /\ dashboard_metrics = [total_documents |-> 0, total_hours |-> 0,
                          total_entries |-> 0, total_images |-> 0]
  /\ temp_files = {}
  /\ task = [j \in JobIds |-> IdleTask]
  /\ handler = [h \in Handlers |-> IdleHandler]
  /\ downloaded = {}
  /\ load \in {ManyFiles, ManyImages, ManyHandlers, NoImages}
  /\ parser = IdleParser

\* dict helpers
Has(d, key) == key \in DOMAIN d
\* an assignment that lands on every key of the table
PutShared(d, key, val) == [x \in DOMAIN d \cup {key} |-> val]

\* d[key] = val
Put(d, key, val) == [x \in DOMAIN d \cup {key} |-> IF x = key THEN val ELSE d[x]]
Del(d, key) == [x \in DOMAIN d \ {key} |-> d[x]]

StatusOf(j) ==
  IF Has(processing_status, j) THEN processing_status[j].status ELSE "absent"

StoredLen(j) ==
  IF Has(processing_results, j) THEN Len(processing_results[j]) ELSE -1

\* ------------------------------------------- background thread of job j
\* processed counted once more per file (say, in the loop of
\* process_files_bulk as well)
NextProcessedTwice(p) == p + 2

\* app.py:266  processing_status[job_id]['processed'] += 1
NextProcessed(p) == p + 1

\* the entries of a document are put in front of the earlier ones
FileDonePrepends(t, result) ==
  [t EXCEPT !.all_data = result \o @, !.images = 0, !.i = 0,
            !.all_entries = <<>>, !.log = <<>>, !.batches = <<>>, !.reg = 0,
            !.pc = "loop"]

\* What process_single_file hands back to the loop of process_files_bulk:
\* app.py:308 all_data.extend(result), the thread's locals of the file reset.
FileDone(t, result) ==
  [t EXCEPT !.all_data = @ \o result, !.images = 0, !.i = 0,
            !.all_entries = <<>>, !.log = <<>>, !.batches = <<>>, !.reg = 0,
            !.pc = "loop"]

\* the exception of one file reaches the except of process_files_bulk
CaughtAborts(t) == [t EXCEPT !.error = "Exception", !.pc = "set_error"]

\* app.py:295-297  except Exception: return []
Caught(t) == FileDone(t, <<>>)

\* the documents are taken from the end of the list
NextFileReversed(files, idx) == files[Len(files) - idx]

\* app.py:305  for file_data in files: after idx documents, the next one
NextFile(files, idx) == files[idx + 1]

\* app.py:305, 262-266  next file: current_file, processed += 1.
\* A missing status record raises KeyError, caught at app.py:295.
StartFile(j) ==
  /\ task[j].pc = "loop"
  /\ task[j].idx < Len(task[j].files)
  /\ IF Has(processing_status, j)
     THEN /\ processing_status' =
               [processing_status EXCEPT
                  ![j].current_file = NextFile(task[j].files, task[j].idx),
                  ![j].processed = NextProcessed(@)]
          /\ task' = [task EXCEPT ![j].idx = @ + 1, ![j].pc = "write_temp"]
     ELSE /\ task' = [task EXCEPT ![j] = Caught([@ EXCEPT !.idx = @ + 1])]
          /\ UNCHANGED processing_status
  /\ UNCHANGED <<processing_results, dashboard_metrics, temp_files, handler,
                 downloaded, load, parser>>

\* app.py:271-273  NamedTemporaryFile(delete=False) and write.  The file can
\* fail to be created, or be created and the write fail; both raise out of
\* the with block, before the try/finally of app.py:275-293 is entered.
WriteTemp(j) ==
  /\ task[j].pc = "write_temp"
  /\ \E outcome \in {"written", "write_raises", "create_raises"} :
       /\ temp_files' = IF outcome = "create_raises" THEN temp_files
                        ELSE temp_files \cup {<<j, task[j].idx>>}
       /\ task' = [task EXCEPT
                     ![j] = IF outcome = "written"
                            THEN [@ EXCEPT !.pc = "extract"]
                            ELSE Caught(@)]
  /\ UNCHANGED <<processing_status, processing_results, dashboard_metrics,
                 handler, downloaded, load, parser>>

\* a document without images is handed on like any other
NoImagesFoundNever(n) == FALSE

\* app.py:279  if not images
NoImagesFound(n) == n = 0

\* app.py:277-281  extract_images_from_docx never raises (app.py:115-117);
\* zero images returns [] through the finally that unlinks the file.
ExtractImages(j) ==
  /\ task[j].pc = "extract"
  /\ \E n \in 0..load.images :
       IF NoImagesFound(n)
       THEN /\ temp_files' = temp_files \ {<<j, task[j].idx>>}
            /\ task' = [task EXCEPT ![j].pc = "loop"]
       ELSE /\ task' = [task EXCEPT ![j].images = n, ![j].i = 0,
                          ![j].all_entries = <<>>, ![j].log = <<>>,
                          ![j].batches = <<>>,
                          ![j].pc = "batch"]
            /\ UNCHANGED temp_files
  /\ UNCHANGED <<processing_status, processing_results, dashboard_metrics,
                 handler, downloaded, load, parser>>

\* a skipped batch that throws away what the earlier batches gave
AccumulateOrReset(all_entries, r) ==
  IF r.raised \/ (r.strict = "error" /\ r.match # "list")
  THEN <<>>
  ELSE all_entries \o BatchEntries(r)

\* app.py:215, 227, 231, 234, 238  all_entries after one batch: extended by
\* the batch's entries, or left alone when the batch is skipped
Accumulate(all_entries, r) == all_entries \o BatchEntries(r)

\* an offset that is tried again after an iteration that raised
NextOffsetRetries(i, r) == IF r.raised THEN i ELSE i + batch_size

\* app.py:132, 236-238  the offset of the iteration that follows one with
\* outcome r: range() moves on by batch_size, the except clause continues
NextOffset(i, r) == i + batch_size

\* app.py:132-238  one iteration of the batch loop: the encoding of the batch,
\* at most one inference call and the parsing of its response.  log is the
\* history of the outcomes of the file's iterations, batches the history of
\* the slices that were cut.
CallBatch(j) ==
  /\ task[j].pc = "batch"
  /\ task[j].i < task[j].images
  /\ \E r \in Responses(j, task[j].idx, (task[j].i \div batch_size) + 1) :
       task' = [task EXCEPT
                  ![j].all_entries = Accumulate(@, r),
                  ![j].log = Append(@, r),
                  ![j].batches =
                     Append(@, PySlice(Images(task[j].images), task[j].i,
                                       task[j].i + batch_size)),
                  ![j].i = NextOffset(@, r)]
  /\ UNCHANGED <<processing_status, processing_results, dashboard_metrics,
                 temp_files, handler, downloaded, load, parser>>

\* app.py:240-241, 254-257  end of the batch loop and tagging.  A TypeError
\* of the tagging leaves through the finally (unlink) to app.py:295-297.
TagEntries(j) ==
  /\ task[j].pc = "batch"
  /\ task[j].i >= task[j].images
  /\ IF TagRaises(task[j].all_entries)
     THEN /\ temp_files' = temp_files \ {<<j, task[j].idx>>}
          /\ task' = [task EXCEPT ![j] = Caught(@)]
     ELSE /\ task' = [task EXCEPT
                        ![j].all_entries =
                           Tag(@, task[j].files[task[j].idx]),
                        ![j].pc = "images_load"]
          /\ UNCHANGED temp_files
  /\ UNCHANGED <<processing_status, processing_results, dashboard_metrics,
                 handler, downloaded, load, parser>>

\* app.py:287  dashboard_metrics['total_images'] += len(images): the read
ImagesLoad(j) ==
  /\ task[j].pc = "images_load"
  /\ task' = [task EXCEPT ![j].reg = dashboard_metrics.total_images,
                          ![j].pc = "images_store"]
  /\ UNCHANGED <<processing_status, processing_results, dashboard_metrics,
                 temp_files, handler, downloaded, load, parser>>

\* app.py:287-293, 308-312  the write, then return data through the finally
ImagesStore(j) ==
  /\ task[j].pc = "images_store"
  /\ dashboard_metrics' =
       [dashboard_metrics EXCEPT !.total_images = task[j].reg + task[j].images]
  /\ temp_files' = temp_files \ {<<j, task[j].idx>>}
  /\ task' = [task EXCEPT ![j] = FileDone(@, task[j].all_entries)]
  /\ UNCHANGED <<processing_status, processing_results, handler, downloaded, load, parser>>

\* The thread has returned (or died): its locals are gone; files is kept as
\* the record of what was submitted under the id.
Ended(t, how) ==
  [t EXCEPT !.pc = how, !.all_data = <<>>, !.reg = 0, !.k = 0]

\* the hours are summed after 'completed' and total_entries are written
SuccessorHoursLast(pc, all_data, k) ==
  CASE pc = "entries_store" -> "store_results"
    [] pc = "store_results" -> "set_completed"
    [] pc = "set_completed" -> "set_total_entries"
    [] pc = "set_total_entries" ->
         IF all_data = <<>> THEN "done" ELSE "hours_load"
    [] pc = "hours_store" ->
         IF k > Len(all_data) THEN "done" ELSE "hours_load"

\* app.py:318-329  the order of the statements that end process_files_bulk:
\* the metrics, the hours loop, the result, 'completed', total_entries
Successor(pc, all_data, k) ==
  CASE pc = "entries_store" ->
         IF all_data = <<>> THEN "store_results" ELSE "hours_load"
    [] pc = "hours_store" ->
         IF k > Len(all_data) THEN "store_results" ELSE "hours_load"
    [] pc = "store_results" -> "set_completed"
    [] pc = "set_completed" -> "set_total_entries"
    [] pc = "set_total_entries" -> "done"

\* One step along that order; the thread returns at "done"
Advance(t) ==
  LET next == Successor(t.pc, t.all_data, t.k) IN
  IF next = "done" THEN Ended(t, "done") ELSE [t EXCEPT !.pc = next]

\* app.py:305, 319  the file loop is exhausted; total_documents: the read
DocsLoad(j) ==
  /\ task[j].pc = "loop"
  /\ task[j].idx = Len(task[j].files)
  /\ task' = [task EXCEPT ![j].reg = dashboard_metrics.total_documents,
                          ![j].pc = "docs_store"]
  /\ UNCHANGED <<processing_status, processing_results, dashboard_metrics,
                 temp_files, handler, downloaded, load, parser>>

\* app.py:319  total_documents += len(files): the write
DocsStore(j) ==
  /\ task[j].pc = "docs_store"
  /\ dashboard_metrics' =
       [dashboard_metrics EXCEPT
          !.total_documents = task[j].reg + Len(task[j].files)]
  /\ task' = [task EXCEPT ![j].pc = "entries_load"]
  /\ UNCHANGED <<processing_status, processing_results, temp_files, handler,
                 downloaded, load, parser>>

\* app.py:320  total_entries: the read
EntriesLoad(j) ==
  /\ task[j].pc = "entries_load"
  /\ task' = [task EXCEPT ![j].reg = dashboard_metrics.total_entries,
                          ![j].pc = "entries_store"]
  /\ UNCHANGED <<processing_status, processing_results, dashboard_metrics,
                 temp_files, handler, downloaded, load, parser>>

\* app.py:320, 323  total_entries += len(all_data): the write; enter the
\* hours loop
EntriesStore(j) ==
  /\ task[j].pc = "entries_store"
  /\ dashboard_metrics' =
       [dashboard_metrics EXCEPT
          !.total_entries = task[j].reg + Len(task[j].all_data)]
  /\ task' = [task EXCEPT ![j] = Advance([@ EXCEPT !.k = 1])]
  /\ UNCHANGED <<processing_status, processing_results, temp_files, handler,
                 downloaded, load, parser>>

\* app.py:324  total_hours += entry.get('hours', 0): the read and the add,
\* which raises TypeError when 'hours' is not a number (to app.py:333)
HoursLoad(j) ==
  /\ task[j].pc = "hours_load"
  /\ IF HoursIsNumber(task[j].all_data[task[j].k])
     THEN task' = [task EXCEPT ![j].reg = dashboard_metrics.total_hours,
                               ![j].pc = "hours_store"]
     ELSE task' = [task EXCEPT ![j].error = "TypeError",
                               ![j].pc = "set_error"]
  /\ UNCHANGED <<processing_status, processing_results, dashboard_metrics,
                 temp_files, handler, downloaded, load, parser>>

\* app.py:323-324  the write, and the next entry
HoursStore(j) ==
  /\ task[j].pc = "hours_store"
  /\ dashboard_metrics' =
       [dashboard_metrics EXCEPT
          !.total_hours = task[j].reg + task[j].all_data[task[j].k].hours]
  /\ task' = [task EXCEPT ![j] = Advance([@ EXCEPT !.k = @ + 1])]
  /\ UNCHANGED <<processing_status, processing_results, temp_files, handler,
                 downloaded, load, parser>>

\* app.py:327  processing_results[job_id] = all_data
StoreResults(j) ==
  /\ task[j].pc = "store_results"
  /\ processing_results' = Put(processing_results, j, task[j].all_data)
  /\ task' = [task EXCEPT ![j] = Advance(@)]
  /\ UNCHANGED <<processing_status, dashboard_metrics, temp_files, handler,
                 downloaded, load, parser>>

\* app.py:328  processing_status[job_id]['status'] = 'completed'
\* (KeyError when the record is gone, to app.py:333)
SetCompleted(j) ==
  /\ task[j].pc = "set_completed"
  /\ IF Has(processing_status, j)
     THEN /\ processing_status' =
               [processing_status EXCEPT ![j].status = "completed"]
          /\ task' = [task EXCEPT ![j] = Advance(@)]
     ELSE /\ task' = [task EXCEPT ![j].error = "KeyError",
                                  ![j].pc = "set_error"]
          /\ UNCHANGED processing_status
  /\ UNCHANGED <<processing_results, dashboard_metrics, temp_files, handler,
                 downloaded, load, parser>>

\* app.py:329  processing_status[job_id]['total_entries'] = len(all_data)
SetTotalEntries(j) ==
  /\ task[j].pc = "set_total_entries"
  /\ IF Has(processing_status, j)
     THEN /\ processing_status' =
               [processing_status EXCEPT
                  ![j].total_entries = Len(task[j].all_data)]
          /\ task' = [task EXCEPT ![j] = Advance(@)]
     ELSE /\ task' = [task EXCEPT ![j].error = "KeyError",
                                  ![j].pc = "set_error"]
          /\ UNCHANGED processing_status
  /\ UNCHANGED <<processing_results, dashboard_metrics, temp_files, handler,
                 downloaded, load, parser>>

\* app.py:333-335  except: processing_status[job_id]['status'] = 'error'
\* (a KeyError here leaves the handler and ends the thread)
SetError(j) ==
  /\ task[j].pc = "set_error"
  /\ IF Has(processing_status, j)
     THEN /\ processing_status' =
               [processing_status EXCEPT ![j].status = "error"]
          /\ task' = [task EXCEPT ![j].pc = "set_error_msg"]
     ELSE /\ task' = [task EXCEPT ![j] = Ended(@, "crashed")]
          /\ UNCHANGED processing_status
  /\ UNCHANGED <<processing_results, dashboard_metrics, temp_files, handler,
                 downloaded, load, parser>>

\* app.py:336  processing_status[job_id]['error'] = str(e)
SetErrorMsg(j) ==
  /\ task[j].pc = "set_error_msg"
  /\ IF Has(processing_status, j)
     THEN /\ processing_status' =
               [processing_status EXCEPT ![j].error = task[j].error]
          /\ task' = [task EXCEPT ![j] = Ended(@, "done")]
     ELSE /\ task' = [task EXCEPT ![j] = Ended(@, "crashed")]
          /\ UNCHANGED processing_status
  /\ UNCHANGED <<processing_results, dashboard_metrics, temp_files, handler,
                 downloaded, load, parser>>

\* ------------------------------------------------ request handler thread h
\* a request for id reaches handler h: the history fields of its arrival
Arrive(t, operation, id) ==
  [t EXCEPT !.op = operation, !.job_id = id, !.late = id \in downloaded,
            !.status0 = StatusOf(id), !.stored0 = StoredLen(id)]

\* the history fields of the step that decides the response
Decide(t, id) ==
  [t EXCEPT !.seen = StatusOf(id), !.stored = StoredLen(id), !.data = <<>>]

Answer(t, r) == [t EXCEPT !.pc = "respond", !.resp = r]

\* every rejection is the not-found answer of download_result
RejectionAlwaysNotFound(c, msg, id) ==
  [NoResp EXCEPT !.code = 404, !.error = "Results not found", !.job_id = id]

\* app.py:1051, 1066, 1100, 1111, 1117, 1145  jsonify({'error': msg}), code
Rejection(c, msg, id) == [NoResp EXCEPT !.code = c, !.error = msg, !.job_id = id]

\* uuid.uuid4() (app.py:1057): an id no earlier submission received
Minted == { j \in JobIds : task[j].pc # "unborn" }

\* an id is handed out whether or not it was used
FreshIdAny == CHOOSE j \in JobIds : TRUE

FreshId == CHOOSE j \in JobIds \ Minted : \A o \in JobIds \ Minted : j <= o

\* the files are not filtered by name
FileDataUnfiltered(fs) == fs

\* app.py:1060-1063  the accepted files, in submission order
FileData(fs) == SelectSeq(fs, AcceptedName)

\* app.py:1068-1077  the initial status record
InitialStatus(file_data) ==
  [status |-> "processing", total |-> Len(file_data), processed |-> 0,
   current_file |-> NoFile, total_entries |-> 0, error |-> ""]

\* app.py:1046-1094  process_bulk
Submit(h, fs) ==
  /\ h <= load.handlers
  /\ Len(fs) <= load.files
  /\ handler[h].pc = "idle"
  /\ IF fs = <<>>
     THEN /\ handler' = [handler EXCEPT ![h] =
               Answer(Arrive([@ EXCEPT !.files = fs], "submit", UnknownId),
                      Rejection(400, "No files provided", UnknownId))]
          /\ UNCHANGED <<processing_status, task>>
     ELSE IF FileData(fs) = <<>>
     THEN /\ handler' = [handler EXCEPT ![h] =
               Answer(Arrive([@ EXCEPT !.files = fs], "submit", UnknownId),
                      Rejection(400, "No valid DOCX files found", UnknownId))]
          /\ UNCHANGED <<processing_status, task>>
     ELSE /\ Cardinality(Minted) < load.jobs
          /\ load.serial => Minted \subseteq downloaded
          /\ processing_status' =
               Put(processing_status, FreshId, InitialStatus(FileData(fs)))
          /\ task' = [task EXCEPT ![FreshId].pc = "loop",
                                  ![FreshId].files = FileData(fs)]
          /\ handler' = [handler EXCEPT ![h] =
               Answer(Arrive([@ EXCEPT !.files = fs], "submit", FreshId),
                      [NoResp EXCEPT !.code = 200, !.job_id = FreshId,
                                     !.total_files = Len(FileData(fs))])]
  /\ UNCHANGED <<processing_results, dashboard_metrics, temp_files, downloaded, load, parser>>

\* app.py:1099-1100  get_status: the membership test
StatusCheck(h, id) ==
  /\ h <= load.handlers
  /\ id <= load.jobs
  /\ handler[h].pc = "idle"
  /\ IF ~Has(processing_status, id)
     THEN handler' = [handler EXCEPT ![h] =
            Answer(Decide(Arrive(@, "status", id), id),
                   Rejection(404, "Job not found", id))]
     ELSE handler' = [handler EXCEPT ![h] =
            [Arrive(@, "status", id) EXCEPT !.pc = "status_copy"]]
  /\ UNCHANGED <<processing_status, processing_results, dashboard_metrics,
                 temp_files, task, downloaded, load, parser>>

\* the copy loses the status field
SnapshotWithoutStatus(rec, id) ==
  [NoResp EXCEPT !.code = 200, !.job_id = id, !.total = rec.total,
                 !.processed = rec.processed,
                 !.total_entries = rec.total_entries]

\* app.py:1102-1105  the copy of the record that get_status returns
Snapshot(rec, id) ==
  [NoResp EXCEPT !.code = 200, !.job_id = id, !.status = rec.status,
                 !.total = rec.total, !.processed = rec.processed,
                 !.total_entries = rec.total_entries]

\* app.py:1102-1105  processing_status[job_id].copy(); a KeyError is not
\* caught in get_status and becomes a 500
StatusCopy(h) ==
  /\ handler[h].pc = "status_copy"
  /\ LET id == handler[h].job_id IN
     IF Has(processing_status, id)
     THEN handler' = [handler EXCEPT ![h] =
            Answer(Decide(@, id), Snapshot(processing_status[id], id))]
     ELSE handler' = [handler EXCEPT ![h] =
            Answer(Decide(@, id), Rejection(500, "KeyError", id))]
  /\ UNCHANGED <<processing_status, processing_results, dashboard_metrics,
                 temp_files, task, downloaded, load, parser>>

\* app.py:1110-1111  download_result: the membership test
DownloadCheck(h, id) ==
  /\ h <= load.handlers
  /\ id <= load.jobs
  /\ handler[h].pc = "idle"
  /\ IF ~Has(processing_results, id)
     THEN handler' = [handler EXCEPT ![h] =
            Answer(Decide(Arrive(@, "download", id), id),
                   Rejection(404, "Results not found", id))]
     ELSE handler' = [handler EXCEPT ![h] =
            [Arrive(@, "download", id) EXCEPT !.pc = "download_read"]]
  /\ UNCHANGED <<processing_status, processing_results, dashboard_metrics,
                 temp_files, task, downloaded, load, parser>>

\* the empty result is not told apart
NotDataNever(data) == FALSE

\* app.py:1115  if not data
NotData(data) == data = <<>>

\* app.py:1113-1117  data = processing_results[job_id]; if not data: 400
\* (a KeyError goes to the except of app.py:1143-1145)
DownloadRead(h) ==
  /\ handler[h].pc = "download_read"
  /\ LET id == handler[h].job_id IN
     IF ~Has(processing_results, id)
     THEN handler' = [handler EXCEPT ![h] =
            Answer(Decide(@, id), Rejection(500, "KeyError", id))]
     ELSE IF NotData(processing_results[id])
     THEN handler' = [handler EXCEPT ![h] =
            Answer(Decide(@, id), Rejection(400, "No data extracted", id))]
     ELSE handler' = [handler EXCEPT
            ![h].pc = "render", ![h].data = processing_results[id]]
  /\ UNCHANGED <<processing_status, processing_results, dashboard_metrics,
                 temp_files, task, downloaded, load, parser>>

\* app.py:1119-1127  create_excel_file(data) and wb.save
Render(h) ==
  /\ handler[h].pc = "render"
  /\ IF RenderRaises(handler[h].data)
     THEN handler' = [handler EXCEPT ![h] =
            Answer(Decide(@, handler[h].job_id),
                   Rejection(500, "AttributeError", handler[h].job_id))]
     ELSE handler' = [handler EXCEPT ![h].pc = "del_results"]
  /\ UNCHANGED <<processing_status, processing_results, dashboard_metrics,
                 temp_files, task, downloaded, load, parser>>

\* app.py:1130  del processing_results[job_id]
DelResults(h) ==
  /\ handler[h].pc = "del_results"
  /\ LET id == handler[h].job_id IN
     IF Has(processing_results, id)
     THEN /\ processing_results' = Del(processing_results, id)
          /\ handler' = [handler EXCEPT ![h].pc = "del_status"]
     ELSE /\ handler' = [handler EXCEPT ![h] =
               Answer(Decide(@, id), Rejection(500, "KeyError", id))]
          /\ UNCHANGED processing_results
  /\ UNCHANGED <<processing_status, dashboard_metrics, temp_files, task,
                 downloaded, load, parser>>

\* app.py:1131-1141  del processing_status[job_id]; the spreadsheet is sent
DelStatus(h) ==
  /\ handler[h].pc = "del_status"
  /\ LET id == handler[h].job_id IN
     IF Has(processing_status, id)
     THEN /\ processing_status' = Del(processing_status, id)
          /\ downloaded' = downloaded \cup {id}
          /\ handler' = [handler EXCEPT ![h] =
               Answer(Decide(@, id),
                      [NoResp EXCEPT !.code = 200, !.job_id = id,
                                     !.rows = Len(handler[h].data)])]
     ELSE /\ handler' = [handler EXCEPT ![h] =
               Answer(Decide(@, id), Rejection(500, "KeyError", id))]
          /\ UNCHANGED <<processing_status, downloaded>>
  /\ UNCHANGED <<processing_results, dashboard_metrics, temp_files, task, load, parser>>

\* the response has been sent; the handler thread serves the next request
Return(h) ==
  /\ handler[h].pc = "respond"
  /\ handler' = [handler EXCEPT ![h] = IdleHandler]
  /\ UNCHANGED <<processing_status, processing_results, dashboard_metrics,
                 temp_files, task, downloaded, load, parser>>

\* ------------------------------------------------------------------- system
TaskStep(j) ==
  \/ StartFile(j) \/ WriteTemp(j) \/ ExtractImages(j) \/ CallBatch(j)
  \/ TagEntries(j) \/ ImagesLoad(j) \/ ImagesStore(j)
  \/ DocsLoad(j) \/ DocsStore(j) \/ EntriesLoad(j) \/ EntriesStore(j)
  \/ HoursLoad(j) \/ HoursStore(j)
  \/ StoreResults(j) \/ SetCompleted(j) \/ SetTotalEntries(j)
  \/ SetError(j) \/ SetErrorMsg(j)

HandlerStep(h) ==
  \/ \E fs \in Submissions : Submit(h, fs)
  \/ \E id \in ReqIds : StatusCheck(h, id)
  \/ StatusCopy(h)
  \/ \E id \in ReqIds : DownloadCheck(h, id)
  \/ DownloadRead(h) \/ Render(h) \/ DelResults(h) \/ DelStatus(h)
  \/ Return(h)

Next ==
  \/ \E j \in JobIds : TaskStep(j)
  \/ \E h \in Handlers : HandlerStep(h)

Spec == Init /\ [][Next]_vars

\* Several jobs at once, each with its own background thread
InitJobs ==
  /\ processing_status = << >>
  /\ processing_results = << >>
  /\ dashboard_metrics = [total_documents |-> 0, total_hours |-> 0,
                          total_entries |-> 0, total_images |-> 0]
  /\ temp_files = {}
  /\ task = [j \in JobIds |-> IdleTask]
  /\ handler = [h \in Handlers |-> IdleHandler]
  /\ downloaded = {}
  /\ load = ManyJobs
  /\ parser = IdleParser

SpecJobs == InitJobs /\ [][Next]_vars

\* Jobs one after the other: a submission follows the retrieval of the
\* job before it, whose thread may still be running its last statements
InitJobAfterJob ==
  /\ processing_status = << >>
  /\ processing_results = << >>
  /\ dashboard_metrics = [total_documents |-> 0, total_hours |-> 0,
                          total_entries |-> 0, total_images |-> 0]
  /\ temp_files = {}
  /\ task = [j \in JobIds |-> IdleTask]
  /\ handler = [h \in Handlers |-> IdleHandler]
  /\ downloaded = {}
  /\ load = JobAfterJob
  /\ parser = IdleParser

SpecJobAfterJob == InitJobAfterJob /\ [][Next]_vars

\* A started thread (app.py:1080-1083) is scheduled again and again, and
\* every call it makes returns or raises: each background thread takes its
\* next step when it has one.  Nothing is assumed of the clients.
FairSpec == Spec /\ \A j \in JobIds : WF_vars(TaskStep(j))

\* ---------------------------------------------------------- response texts
\* The parsing of app.py:207-234 on the text itself.  A text is a sequence
\* of characters; the JSON of the texts below has one-digit numbers and
\* strings without escapes.
Q == "\""

\* leading whitespace, which json.loads skips
RECURSIVE SkipWs(_)
SkipWs(s) == IF s # <<>> /\ s[1] = " " THEN SkipWs(Tail(s)) ELSE s

\* A parsed JSON value: its type and what it is made of (the elements of an
\* array, the members of an object, the characters of a string or number)
JValue(type, items) == [type |-> type, items |-> items]

Chars(cs) == [n \in 1..Len(cs) |-> JValue(cs[n], <<>>)]

ParseFail == [ok |-> FALSE, val |-> JValue("null", <<>>), rest |-> <<>>]
ParseOk(v, rest) == [ok |-> TRUE, val |-> v, rest |-> rest]

\* position of the first c in s at or after p, 0 when there is none
RECURSIVE Find(_, _, _)
Find(s, c, p) ==
  IF p > Len(s) THEN 0 ELSE IF s[p] = c THEN p ELSE Find(s, c, p + 1)

StartsWith(s, w) == Len(s) >= Len(w) /\ SubSeq(s, 1, Len(w)) = w

\* a string, s[1] being its opening quote
ParseString(s) ==
  LET close == Find(s, Q, 2) IN
  IF close = 0 THEN ParseFail
  ELSE ParseOk(JValue("string", Chars(SubSeq(s, 2, close - 1))),
               SubSeq(s, close + 1, Len(s)))

RECURSIVE ParseValue(_), ParseItems(_, _), ParseMembers(_, _)

\* json.loads, one value: the value and the text left after it
ParseValue(s0) ==
  LET s == SkipWs(s0) IN
  IF s = <<>> THEN ParseFail
  ELSE IF s[1] = "["
  THEN LET t == SkipWs(Tail(s)) IN
       IF t # <<>> /\ t[1] = "]"
       THEN ParseOk(JValue("array", <<>>), Tail(t))
       ELSE ParseItems(t, <<>>)
  ELSE IF s[1] = "{"
  THEN LET t == SkipWs(Tail(s)) IN
       IF t # <<>> /\ t[1] = "}"
       THEN ParseOk(JValue("object", <<>>), Tail(t))
       ELSE ParseMembers(t, <<>>)
  ELSE IF s[1] = Q THEN ParseString(s)
  ELSE IF s[1] = "8" THEN ParseOk(JValue("number", Chars(<<"8">>)), Tail(s))
  ELSE IF StartsWith(s, <<"n", "u", "l", "l">>)
  THEN ParseOk(JValue("null", <<>>), SubSeq(s, 5, Len(s)))
  ELSE ParseFail

\* the elements of an array after '[': a value, then ',' and more, or ']'
ParseItems(s, acc) ==
  LET v == ParseValue(s) IN
  IF ~v.ok THEN ParseFail
  ELSE LET t == SkipWs(v.rest) IN
       IF t = <<>> THEN ParseFail
       ELSE IF t[1] = "]"
       THEN ParseOk(JValue("array", Append(acc, v.val)), Tail(t))
       ELSE IF t[1] = "," THEN ParseItems(Tail(t), Append(acc, v.val))
       ELSE ParseFail

\* the members of an object after '{': "key": value, then ',' or '}'
ParseMembers(s0, acc) ==
  LET s == SkipWs(s0) IN
  IF s = <<>> \/ s[1] # Q THEN ParseFail
  ELSE LET key == ParseString(s) IN
       IF ~key.ok THEN ParseFail
       ELSE LET c == SkipWs(key.rest) IN
            IF c = <<>> \/ c[1] # ":" THEN ParseFail
            ELSE LET v == ParseValue(Tail(c)) IN
                 IF ~v.ok THEN ParseFail
                 ELSE LET t == SkipWs(v.rest)
                          m == JValue("member", <<key.val, v.val>>)
                      IN IF t = <<>> THEN ParseFail
                         ELSE IF t[1] = "}"
                         THEN ParseOk(JValue("object", Append(acc, m)), Tail(t))
                         ELSE IF t[1] = ","
                         THEN ParseMembers(Tail(t), Append(acc, m))
                         ELSE ParseFail

\* json.loads(text): not ok stands for JSONDecodeError (no value, or text
\* left after the value)
JsonLoads(s) ==
  LET r == ParseValue(s) IN
  IF r.ok /\ SkipWs(r.rest) = <<>> THEN r ELSE ParseFail

\* app.py:222  re.search(r'\[.*?\]', text, re.DOTALL).group(): from the
\* first '[' to the first ']' after it; <<>> when there is no match
ReSearch(s) ==
  LET open == Find(s, "[", 1)
      close == IF open = 0 THEN 0 ELSE Find(s, "]", open + 1)
  IN IF close = 0 THEN <<>> ELSE SubSeq(s, open, close)

\* an object passes for a list
IsListOrObject(v) == v.type \in {"array", "object"}

\* app.py:213, 226  isinstance(batch_entries, list)
IsList(v) == v.type = "array"

\* The texts of this model.  An entry is an object with one member, whose
\* value is a number, a string holding a bracket, or a nested array.
MaxEntries == 2       \* entries in the array of one response

EntryText(v) == <<"{", Q, "k", Q, ":">> \o v \o <<"}">>

EntryTexts ==
  { EntryText(<<"8">>), EntryText(<<Q, "]", Q>>), EntryText(<<Q, "[", Q>>),
    EntryText(<<"[", "8", "]">>) }

RECURSIVE Joined(_, _)
Joined(es, pad) ==
  IF es = <<>> THEN pad
  ELSE IF Len(es) = 1 THEN pad \o es[1] \o pad
  ELSE pad \o es[1] \o <<",">> \o Joined(Tail(es), pad)

ArrayTexts ==
  { <<"[">> \o Joined(es, pad) \o <<"]">> :
      es \in SeqsUpTo(EntryTexts, MaxEntries), pad \in {<<>>, <<" ">>} }

\* a response: its text, what it was made as (an array between prose, a
\* JSON value that is not an array, or neither) and the array put into it
Embedding ==
  { [text |-> pre \o a \o post, kind |-> "array", embedded |-> a] :
      a \in ArrayTexts,
      pre \in {<<>>, <<"t", " ">>}, post \in {<<>>, <<" ", "t">>} }

NonArrays ==
  { [text |-> t, kind |-> "nonarray", embedded |-> <<>>] :
      t \in EntryTexts \cup
            { <<"8">>, <<"n", "u", "l", "l">>, <<Q, "t", Q>>,
              <<Q, "[", "8", "]", Q>> } }

Garbage ==
  { [text |-> t, kind |-> "garbage", embedded |-> <<>>] :
      t \in { <<"t">>, <<"t", " ", "[">>, <<"]", " ", "[">>,
              <<"[", "t", "]">>, <<"t", " ", "[", "8">> } }

ResponseTexts == Embedding \cup NonArrays \cup Garbage

\* what all_entries can hold when the response comes
Earlier == { <<>>, <<JValue("object", <<>>)>> }

InitParse ==
  /\ processing_status = << >>
  /\ processing_results = << >>
  /\ dashboard_metrics = [total_documents |-> 0, total_hours |-> 0,
                          total_entries |-> 0, total_images |-> 0]
  /\ temp_files = {}
  /\ task = [j \in JobIds |-> IdleTask]
  /\ handler = [h \in Handlers |-> IdleHandler]
  /\ downloaded = {}
  /\ load = Workload(0, 0, 0, 0)
  /\ parser \in { [pc |-> "strict", response_text |-> r.text, kind |-> r.kind,
                   embedded |-> r.embedded, all_entries |-> e, before |-> e,
                   scanned |-> FALSE] :
                    r \in ResponseTexts, e \in Earlier }

\* app.py:211-218  json.loads(response_text); a list extends all_entries,
\* another value is skipped, JSONDecodeError goes to the recovery
StrictParse ==
  /\ parser.pc = "strict"
  /\ LET r == JsonLoads(parser.response_text) IN
     IF ~r.ok THEN parser' = [parser EXCEPT !.pc = "recover"]
     ELSE IF IsList(r.val)
     THEN parser' = [parser EXCEPT !.all_entries = @ \o r.val.items,
                                   !.pc = "done"]
     ELSE parser' = [parser EXCEPT !.pc = "done"]
  /\ UNCHANGED <<processing_status, processing_results, dashboard_metrics,
                 temp_files, task, handler, downloaded, load>>

\* app.py:219-234  re.search, then json.loads of the match
RecoveryScan ==
  /\ parser.pc = "recover"
  /\ LET m == ReSearch(parser.response_text)
         r == JsonLoads(m)
     IN IF m # <<>> /\ r.ok /\ IsList(r.val)
        THEN parser' = [parser EXCEPT !.all_entries = @ \o r.val.items,
                                      !.scanned = TRUE, !.pc = "done"]
        ELSE parser' = [parser EXCEPT !.scanned = TRUE, !.pc = "done"]
  /\ UNCHANGED <<processing_status, processing_results, dashboard_metrics,
                 temp_files, task, handler, downloaded, load>>

NextParse == StrictParse \/ RecoveryScan

SpecParse == InitParse /\ [][NextParse]_vars

\* ------------------------------------------------------------------ claims
Range(s) == { s[n] : n \in 1..Len(s) }

\* handler h holds the response to a request of the given kind
Responding(h, operation) ==
  handler[h].pc = "respond" /\ handler[h].op = operation

\* what download_result answers for an id that was never submitted
NotFound == <<404, "Results not found">>
Outcome(r) == <<r.code, r.error>>

\* C1: every status record has processed <= total, total being the number of
\* accepted documents and processed the number of documents the job's
\* thread has started.
C1_ProcessedLeTotal ==
  \A j \in DOMAIN processing_status :
    /\ processing_status[j].processed <= processing_status[j].total
    /\ processing_status[j].total = Len(task[j].files)
    /\ processing_status[j].processed = task[j].idx

C1_Witness ==
  \E j \in DOMAIN processing_status :
    /\ processing_status[j].total >= 2
    /\ processing_status[j].processed = processing_status[j].total

\* C2: once a status record holds 'completed' or 'error', every step leaves
\* that status as it is (or removes the record).
C2_StatusMonotonic ==
  [][\A j \in DOMAIN processing_status :
       processing_status[j].status \in {"completed", "error"} =>
         (j \in DOMAIN processing_status' =>
            processing_status'[j].status = processing_status[j].status)]_vars

C2_Witness ==
  \E j \in DOMAIN processing_status :
    /\ processing_status[j].status = "error"
    /\ processing_status[j].error = "TypeError"
    /\ task[j].pc = "done"

\* C3: a retrieval of a completed job with at least one entry returns the
\* spreadsheet and leaves neither record behind (unless another retrieval
\* removed the job first), and a retrieval or poll that comes in after the
\* id was downloaded reports not-found.
C3_RetrievalExactlyOnce ==
  \A h \in Handlers :
    /\ ( /\ Responding(h, "download")
         /\ handler[h].status0 = "completed"
         /\ handler[h].stored0 >= 1
         /\ handler[h].resp.error # "KeyError" )
       => /\ handler[h].resp.code = 200
          /\ ~Has(processing_results, handler[h].job_id)
          /\ ~Has(processing_status, handler[h].job_id)
    /\ ( /\ handler[h].pc = "respond"
         /\ handler[h].op \in {"download", "status"}
         /\ handler[h].late )
       => handler[h].resp.code = 404

\* C4: a retrieval returns the spreadsheet only if the status record it
\* removes says 'completed'.
C4_RetrievedOnlyWhenCompleted ==
  \A h \in Handlers :
    (Responding(h, "download") /\ handler[h].resp.code = 200)
      => handler[h].seen = "completed"

\* C5: a retrieval of a job that is in 'processing' from its arrival to its
\* answer is rejected with a client error other than the not-found answer.
C5_ProcessingIsNotNotFound ==
  \A h \in Handlers :
    ( /\ Responding(h, "download")
      /\ handler[h].status0 = "processing"
      /\ handler[h].seen = "processing" )
    => /\ handler[h].resp.code \in 400..499
       /\ Outcome(handler[h].resp) # NotFound

\* C6: a retrieval of a job whose stored result is empty is answered 400
\* 'No data extracted', which is not the not-found answer; no spreadsheet
\* is sent and the job stays in both tables.
C6_EmptyResultRejected ==
  \A h \in Handlers :
    (Responding(h, "download") /\ handler[h].stored0 = 0)
    => /\ Outcome(handler[h].resp) = <<400, "No data extracted">>
       /\ Outcome(handler[h].resp) # NotFound
       /\ handler[h].resp.rows = 0
       /\ Has(processing_status, handler[h].job_id)
       /\ Has(processing_results, handler[h].job_id)
       /\ processing_results[handler[h].job_id] = <<>>

C6_Witness ==
  \E h \in Handlers :
    /\ Responding(h, "download")
    /\ handler[h].status0 = "completed"
    /\ handler[h].stored0 = 0
    /\ handler[h].resp.code = 400

\* C7: a poll that reads status 'completed' reads a total_entries equal to
\* the length of the result stored at that moment.
C7_PolledTotalEntries ==
  \A h \in Handlers :
    ( /\ Responding(h, "status")
      /\ handler[h].resp.code = 200
      /\ handler[h].resp.status = "completed"
      /\ handler[h].stored >= 0 )
    => handler[h].resp.total_entries = handler[h].stored

\* C8: a result exists only for an id that has a status record, and a
\* status record saying 'completed' exists only for an id that has a result.
C8_TablesTogether ==
  /\ \A j \in DOMAIN processing_results : j \in DOMAIN processing_status
  /\ \A j \in DOMAIN processing_status :
       processing_status[j].status = "completed"
         => j \in DOMAIN processing_results

\* the objects the file's responses carried, tagged with the file's name
Objects(t) ==
  { [e EXCEPT !.source_file = t.files[t.idx]] :
      e \in { x \in UNION { Range(r.entries) : r \in Range(t.log) } :
              IsDict(x) } }

\* C9: when a file is finished, the entries it adds to the job hold every
\* entry object that any of its batches returned, whatever the other
\* batches returned.
C9_OtherBatchesKept ==
  [][\A j \in JobIds :
       (task[j].pc \in {"batch", "images_store"} /\ task'[j].pc = "loop")
         => Objects(task[j]) \subseteq Range(task'[j].all_data)]_vars

\* a batch whose call failed or whose text could not be parsed
Unusable(r) == r.raised \/ (r.strict = "error" /\ r.match # "list")

RECURSIVE Kept(_)
Kept(log) ==
  IF log = <<>> THEN <<>>
  ELSE Kept(SubSeq(log, 1, Len(log) - 1))
       \o (IF Unusable(log[Len(log)]) THEN <<>>
           ELSE BatchEntries(log[Len(log)]))

\* C10: through the batch loop all_entries is the concatenation of what the
\* usable batches gave, a failed or unparsable batch adding nothing and
\* removing nothing, and every batch is called: the loop goes on after it.
C10_FailedBatchSkipped ==
  \A j \in JobIds :
    task[j].pc = "batch" =>
      /\ task[j].all_entries = Kept(task[j].log)
      /\ task[j].i = Len(task[j].log) * batch_size
      /\ (Len(task[j].log) - 1) * batch_size < task[j].images

C10_Witness ==
  \E j \in JobIds :
    /\ task[j].pc = "batch"
    /\ task[j].images = batch_size + 1
    /\ Len(task[j].log) = 2
    /\ ~Unusable(task[j].log[1])
    /\ task[j].log[1].entries # <<>>
    /\ Unusable(task[j].log[2])
    /\ task[j].all_entries = task[j].log[1].entries

\* ceil(n / d) for naturals
CeilDiv(n, d) == (n + d - 1) \div d

RECURSIVE Concat(_)
Concat(ss) ==
  IF ss = <<>> THEN <<>>
  ELSE Concat(SubSeq(ss, 1, Len(ss) - 1)) \o ss[Len(ss)]

\* C11: the batches cut from a document's N images (N = 0 included) are
\* ceil(N/4) in number once the loop is over, each holds 1 to 4 images, only
\* the last can hold fewer than 4, and put end to end in order they are the
\* images so far consumed, the whole sequence at the end: no overlap, no gap.
C11_Batching ==
  \A j \in JobIds :
    LET n == task[j].images
        bs == task[j].batches
        used == IF task[j].i < n THEN task[j].i ELSE n
    IN /\ Concat(bs) = SubSeq(Images(n), 1, used)
       /\ \A k \in 1..Len(bs) :
            /\ Len(bs[k]) \in 1..4
            /\ Len(bs[k]) < 4 => (k = Len(bs) /\ task[j].i >= n)
       /\ task[j].i >= n =>
            /\ Len(bs) = CeilDiv(n, 4)
            /\ Concat(bs) = Images(n)

C11_Witness ==
  \E j \in JobIds :
    /\ task[j].pc = "batch"
    /\ task[j].images = 5
    /\ task[j].batches = << <<1, 2, 3, 4>>, <<5>> >>

\* C12: every entry of a stored result names, as its source_file, the
\* submitted document whose inference call returned it, never the value the
\* model's response carried.
C12_SourceFileIsDocument ==
  \A j \in DOMAIN processing_results :
    \A e \in Range(processing_results[j]) :
      /\ e.job = j
      /\ e.file \in 1..Len(task[j].files)
      /\ e.source_file = task[j].files[e.file]
      /\ e.source_file # FromModel

C12_Witness ==
  \E j \in DOMAIN processing_results :
    /\ Len(task[j].files) = 2
    /\ task[j].files[1] # task[j].files[2]
    /\ \E e \in Range(processing_results[j]) :
         e.file = 2 /\ e.source_file = task[j].files[2]

\* the step of job j's thread in which an exception leaves the processing
\* of a file: the temporary file could not be made, or tagging raised
EscapedRaise(j) ==
  \/ task[j].pc = "write_temp" /\ task'[j].pc \notin {"write_temp", "extract"}
  \/ task[j].pc = "batch" /\ task'[j].pc \notin {"batch", "images_load"}

\* the step that ends a file one of whose inference calls raised
EndsAfterRaisedCall(j) ==
  /\ task[j].pc \in {"batch", "images_store"}
  /\ task'[j].pc \notin {"batch", "images_load", "images_store"}
  /\ \E r \in Range(task[j].log) : r.raised

\* the file adds nothing, the job stays 'processing' and its loop goes on
\* with the next document
AbsorbedByLoop(j) ==
  /\ task'[j].pc = "loop"
  /\ task'[j].all_data = task[j].all_data
  /\ task'[j].idx = task[j].idx
  /\ task'[j].files = task[j].files
  /\ processing_status' = processing_status
  /\ StatusOf(j) = "processing"

\* the job leaves its loop only after its last document, and its status
\* becomes 'error' only by an exception of the statements after the loop
OnlyTheLoopFails(j) ==
  /\ (task[j].pc = "loop" /\ task'[j].pc \notin {"loop", "write_temp"})
       => task[j].idx = Len(task[j].files)
  /\ (StatusOf(j) # "error" /\ j \in DOMAIN processing_status'
        /\ processing_status'[j].status = "error")
       => /\ task[j].idx = Len(task[j].files)
          /\ task[j].error \in {"TypeError", "KeyError"}

C14_ErrorHasMessageNoResult ==
  /\ \A j \in DOMAIN processing_status :
       processing_status[j].status = "error"
         => /\ processing_status[j].error # ""
            /\ ~Has(processing_results, j)
  /\ \A h \in Handlers :
       (Responding(h, "download") /\ handler[h].status0 = "error")
         => handler[h].resp.code \in 400..499

\* C15: the metrics change only in the step that turns a job from
\* 'processing' to 'completed', and while the only job submitted is in
\* 'error' every counter is what it was before the job: zero.
C15_MetricsWithCompletion ==
  [][/\ dashboard_metrics' # dashboard_metrics
          => \E j \in DOMAIN processing_status :
               /\ processing_status[j].status = "processing"
               /\ j \in DOMAIN processing_status'
               /\ processing_status'[j].status = "completed"
     /\ \A j \in DOMAIN processing_status' :
          (processing_status'[j].status = "error"
             /\ \A o \in JobIds \ {j} : task'[o].pc = "unborn")
          => \A c \in DOMAIN dashboard_metrics' : dashboard_metrics'[c] = 0]_vars

RECURSIVE Sum(_, _)
Sum(f, S) ==
  IF S = {} THEN 0
  ELSE LET x == CHOOSE y \in S : TRUE IN f[x] + Sum(f, S \ {x})

\* C16: when every submitted job is 'completed' and its thread has returned,
\* total_documents is the sum of the jobs' totals and total_entries the sum
\* of their total_entries, whatever the interleaving of their threads was.
C16_NoLostIncrement ==
  ( /\ Minted # {}
    /\ \A j \in Minted :
         task[j].pc = "done" /\ StatusOf(j) = "completed" )
  => /\ dashboard_metrics.total_documents =
          Sum([j \in Minted |-> processing_status[j].total], Minted)
     /\ dashboard_metrics.total_entries =
          Sum([j \in Minted |-> processing_status[j].total_entries], Minted)

\* C17: a job whose status is 'processing' eventually has the status
\* 'completed' or 'error'.
C17_LeavesProcessing ==
  \A j \in JobIds :
    (StatusOf(j) = "processing") ~> (StatusOf(j) \in {"completed", "error"})

\* the thread of a job is inside process_single_file
InFile(t) ==
  t.pc \in {"write_temp", "extract", "batch", "images_load", "images_store"}

\* C18: a job has one thread, started by its submission and never again; the
\* thread has one document in hand at a time, the idx-th of the submission,
\* and takes the next one only when that one is finished: the entries
\* gathered so far are those of the earlier documents, in submission order.
C18_OneAtATimeInOrder ==
  [][\A j \in JobIds :
       /\ task[j].pc = "unborn" /\ task'[j].pc # "unborn"
            => /\ ~Has(processing_status, j)
               /\ task'[j].pc = "loop" /\ task'[j].idx = 0
       /\ task[j].pc # "unborn"
            => /\ task'[j].pc # "unborn"
               /\ task'[j].files = task[j].files
               /\ task'[j].idx \in {task[j].idx, task[j].idx + 1}
       /\ task'[j].idx # task[j].idx
            => /\ task[j].pc = "loop" /\ InFile(task'[j])
               /\ task[j].all_entries = <<>> /\ task[j].images = 0
       /\ (InFile(task'[j]) /\ Has(processing_status', j))
            => processing_status'[j].current_file =
                 task'[j].files[task'[j].idx]
       /\ \A e \in Range(task'[j].all_entries) : e.file = task'[j].idx
       /\ \A k \in 1..Len(task'[j].all_data) :
            /\ task'[j].all_data[k].file <= task'[j].idx
            /\ InFile(task'[j]) => task'[j].all_data[k].file < task'[j].idx
            /\ k > 1 => task'[j].all_data[k - 1].file
                          <= task'[j].all_data[k].file]_vars

C18_Witness ==
  \E j \in JobIds :
    /\ InFile(task[j])
    /\ task[j].idx = 2
    /\ task[j].files[1] # task[j].files[2]
    /\ task[j].all_entries # <<>>
    /\ \E e \in Range(task[j].all_data) : e.file = 1

\* the name ends in .docx or .doc, in either case
EndsInDocExt(f) == f.ext \in {".docx", ".doc", ".DOCX", ".DOC"}

DocFiles(fs) == { k \in 1..Len(fs) : EndsInDocExt(fs[k]) }

\* handler h answers a submission in this step
SubmitAnswered(h) ==
  /\ handler[h].pc = "idle"
  /\ handler'[h].pc = "respond"
  /\ handler'[h].op = "submit"

\* C19: the step that accepts a submission writes, under an id that had no
\* record, a status record with 'processing', processed 0, total_entries 0
\* and total = the number of submitted files whose name ends in .docx or
\* .doc; the thread it starts has not run yet and is given those files only.
C19_AcceptedRecord ==
  [][\A h \in Handlers :
       (SubmitAnswered(h) /\ handler'[h].resp.code = 200)
       => LET id == handler'[h].resp.job_id
              fs == handler'[h].files
          IN /\ ~Has(processing_status, id)
             /\ Has(processing_status', id)
             /\ processing_status'[id].status = "processing"
             /\ processing_status'[id].processed = 0
             /\ processing_status'[id].total_entries = 0
             /\ processing_status'[id].total = Cardinality(DocFiles(fs))
             /\ handler'[h].resp.total_files = Cardinality(DocFiles(fs))
             /\ task[id].pc = "unborn"
             /\ task'[id].pc = "loop" /\ task'[id].idx = 0
             /\ Len(task'[id].files) = Cardinality(DocFiles(fs))
             /\ Range(task'[id].files) = { fs[k] : k \in DocFiles(fs) }]_vars

C19_Witness ==
  \E h \in Handlers :
    /\ Responding(h, "submit")
    /\ handler[h].resp.code = 200
    /\ Len(handler[h].files) = 2
    /\ handler[h].resp.total_files = 1
    /\ processing_status[handler[h].resp.job_id].total = 1
    /\ processing_status[handler[h].resp.job_id].processed = 0
    /\ task[handler[h].resp.job_id].pc = "loop"
    /\ task[handler[h].resp.job_id].idx = 0

\* C20: a submission that carries no file, or no file whose name ends in
\* .docx or .doc, is answered with a client error in a step that leaves the
\* status table, the result table, the metrics and the threads as they were.
C20_RejectionChangesNothing ==
  [][\A h \in Handlers :
       (SubmitAnswered(h) /\ DocFiles(handler'[h].files) = {})
       => /\ handler'[h].resp.code = 400
          /\ UNCHANGED <<processing_status, processing_results,
                         dashboard_metrics, temp_files, task>>]_vars

C20_Witness ==
  \E h \in Handlers :
    /\ Responding(h, "submit")
    /\ handler[h].files # <<>>
    /\ DocFiles(handler[h].files) = {}
    /\ Outcome(handler[h].resp) = <<400, "No valid DOCX files found">>
    /\ processing_status = << >>

\* C21: a temporary file exists only while the invocation of
\* process_single_file that created it is in progress.
C21_TempFileReleased ==
  \A tf \in temp_files :
    InFile(task[tf[1]]) /\ task[tf[1]].idx = tf[2]

\* C22: a response text that holds a well-formed JSON array of entries,
\* alone or between prose, adds exactly the entries of that array.
C22_RecoveryTakesTheArray ==
  (parser.pc = "done" /\ parser.kind = "array")
  => parser.all_entries = parser.before \o JsonLoads(parser.embedded).val.items

\* C23: a poll of an id that has no status record is answered 404 'Job not
\* found'; a poll that finds the record in 'processing' is answered 200 with
\* status 'processing', total and processed as they stand; the two answers
\* differ; and whenever a job is in 'processing' an idle handler can take a
\* poll of it.
C23_PollNotFoundOrProcessing ==
  /\ \A h \in Handlers :
       Responding(h, "status") =>
         /\ handler[h].seen = "absent" /\ handler[h].status0 = "absent"
              => Outcome(handler[h].resp) = <<404, "Job not found">>
         /\ handler[h].seen = "processing"
              => /\ handler[h].resp.code = 200
                 /\ handler[h].resp.status = "processing"
                 /\ Outcome(handler[h].resp) # <<404, "Job not found">>
                 /\ Has(processing_status, handler[h].job_id)
                      => /\ handler[h].resp.total
                              = processing_status[handler[h].job_id].total
                         /\ handler[h].resp.processed
                              <= processing_status[handler[h].job_id].processed
  /\ \A h \in Handlers, j \in JobIds :
       (h <= load.handlers /\ handler[h].pc = "idle"
          /\ StatusOf(j) = "processing")
       => ENABLED StatusCheck(h, j)

C23_Witness ==
  \E h \in Handlers :
    /\ Responding(h, "status")
    /\ handler[h].resp.code = 200
    /\ handler[h].resp.status = "processing"
    /\ handler[h].resp.processed = 1
    /\ InFile(task[handler[h].job_id])

\* C24: an id whose records a retrieval removed has no status record and no
\* result in any later state, whatever its thread and later submissions do,
\* and the id an accepted submission receives is never such an id.
C24_RemovedIdStaysRemoved ==
  /\ \A j \in downloaded :
       ~Has(processing_status, j) /\ ~Has(processing_results, j)
  /\ \A h \in Handlers :
       (Responding(h, "submit") /\ handler[h].resp.code = 200)
         => ~handler[h].late

\* the first job was retrieved before its thread had ended, the thread has
\* run into the missing record, and a later submission was accepted
C24_Witness ==
  \E j \in downloaded :
    /\ task[j].pc = "crashed"
    /\ \E h \in Handlers :
         /\ Responding(h, "submit")
         /\ handler[h].resp.code = 200
         /\ handler[h].resp.job_id # j

\* C25: the step in which a document turns out to have no image ends the
\* document: nothing is added to the job's entries, the status stays
\* 'processing', the temporary file is gone; an inference call is made only
\* for a document with images; and a job whose documents all have no image
\* ends 'completed' with total_entries 0 and an empty result, never 'error'.
C25_ZeroImages ==
  [][\A j \in JobIds :
       /\ (task[j].pc = "extract" /\ task'[j].pc # "extract"
             /\ task'[j].images = 0)
          => /\ task'[j].pc = "loop"
             /\ task'[j].all_data = task[j].all_data
             /\ task'[j].log = <<>>
             /\ processing_status' = processing_status
             /\ StatusOf(j) = "processing"
             /\ <<j, task[j].idx>> \notin temp_files'
       /\ Len(task'[j].log) > Len(task[j].log) => task[j].images >= 1
       /\ load.images = 0
          => /\ task'[j].log = <<>> /\ task'[j].all_data = <<>>
             /\ StatusOf(j)' \in {"absent", "processing", "completed"}
             /\ task'[j].pc \in {"unborn", "loop", "write_temp", "extract",
                                 "docs_store", "entries_load", "entries_store",
                                 "store_results", "set_completed",
                                 "set_total_entries", "done"}
             /\ task'[j].pc = "done"
                  => /\ StatusOf(j)' = "completed"
                     /\ processing_status'[j].total_entries = 0
                     /\ processing_results'[j] = <<>>]_vars

C25_Witness ==
  \E j \in DOMAIN processing_status :
    /\ load.images = 0
    /\ task[j].pc = "done"
    /\ processing_status[j].status = "completed"
    /\ processing_status[j].total = 2
    /\ processing_status[j].total_entries = 0
    /\ temp_files = {}

\* what a document yields: the entries of its usable batches in batch
\* order, under the document's name
Yield(t) ==
  [n \in 1..Len(Kept(t.log)) |->
     [Kept(t.log)[n] EXCEPT !.source_file = t.files[t.idx]]]

\* C26: a document that ends adds what it yielded (nothing when it failed)
\* behind the entries of the documents before it; what is stored is that
\* list, and total_entries is written as its length, so that the result of
\* a completed job lists the documents' entries in submission order, and in
\* batch order within a document, and total_entries counts them.
C26_ResultIsConcatenation ==
  [][\A j \in JobIds :
       /\ (InFile(task[j]) /\ task'[j].pc = "loop")
          => task'[j].all_data =
               task[j].all_data
                 \o (IF task[j].pc = "images_store" THEN Yield(task[j])
                     ELSE <<>>)
       /\ (task'[j].pc \notin {"loop", "done", "crashed"})
          => task'[j].all_data = task[j].all_data
       /\ (task[j].pc = "store_results" /\ task'[j].pc # "store_results")
          => processing_results'[j] = task[j].all_data
       /\ (task[j].pc = "set_total_entries" /\ task'[j].pc = "done")
          => processing_status'[j].total_entries = Len(task[j].all_data)
       /\ (task'[j].pc = "done" /\ StatusOf(j)' = "completed"
             /\ Has(processing_results', j))
          => /\ processing_status'[j].total_entries
                  = Len(processing_results'[j])
             /\ \A n \in 2..Len(processing_results'[j]) :
                  LET a == processing_results'[j][n - 1]
                      b == processing_results'[j][n]
                  IN \/ a.file < b.file
                     \/ a.file = b.file /\ a.batch <= b.batch]_vars

C26_Witness ==
  \E j \in DOMAIN processing_results :
    /\ task[j].pc = "done"
    /\ StatusOf(j) = "completed"
    /\ processing_status[j].total = 2
    /\ processing_status[j].total_entries = 2
    /\ Len(processing_results[j]) = 2
    /\ processing_results[j][1].file = 1
    /\ processing_results[j][2].file = 2

\* C27: a poll that reads 'error' answers 'error' and one that reads
\* 'completed' answers 'completed'; a retrieval of a job that was in 'error'
\* is answered 404 'Results not found' and a retrieval of a job that was
\* 'completed' with an empty result is answered 400 'No data extracted': a
\* failed job and a completed job without entries never get the same answer.
C27_FailedOrEmpty ==
  \A h \in Handlers :
    /\ (Responding(h, "status") /\ handler[h].resp.code = 200)
         => /\ handler[h].resp.status = handler[h].seen
            /\ handler[h].seen \in {"processing", "completed", "error"}
    /\ (Responding(h, "download") /\ handler[h].status0 = "error")
         => Outcome(handler[h].resp) = <<404, "Results not found">>
    /\ ( /\ Responding(h, "download")
         /\ handler[h].status0 = "completed"
         /\ handler[h].stored0 = 0 )
         => Outcome(handler[h].resp) = <<400, "No data extracted">>

C27_Witness ==
  \E h \in Handlers :
    /\ Responding(h, "download")
    /\ handler[h].status0 = "error"
    /\ task[handler[h].job_id].pc = "done"
    /\ processing_status[handler[h].job_id].error = "TypeError"
    /\ handler[h].resp.code = 404

\* C28: a response that is JSON but not an array adds no entry: all_entries
\* is what it was before the response, and re.search is never called on it.
C28_NonArraySkipped ==
  parser.kind = "nonarray"
    => /\ parser.pc # "recover"
       /\ ~parser.scanned
       /\ parser.all_entries = parser.before

C28_Witness ==
  /\ parser.kind = "nonarray"
  /\ parser.pc = "done"
  /\ parser.before # <<>>
  /\ parser.all_entries = parser.before
  /\ ReSearch(parser.response_text) # <<>>

\* C29: processed is the number of documents started: while a document is
\* worked on it is already counted and current_file names it; and a record
\* that says 'completed' or 'error' has processed = total.
C29_ProcessedCountsStarted ==
  \A j \in DOMAIN processing_status :
    /\ processing_status[j].processed = task[j].idx
    /\ InFile(task[j])
         => /\ task[j].idx >= 1
            /\ processing_status[j].current_file = task[j].files[task[j].idx]
            /\ processing_status[j].status = "processing"
    /\ processing_status[j].status \in {"completed", "error"}
         => processing_status[j].processed = processing_status[j].total

\* the last document is being worked on: processed = total, 'processing'
C29_Witness ==
  \E j \in DOMAIN processing_status :
    /\ task[j].pc = "batch"
    /\ processing_status[j].total = 2
    /\ processing_status[j].processed = 2
    /\ processing_status[j].status = "processing"

\* C30: the step in which a retrieval is answered without the spreadsheet
\* (not found, no data, rendering failed) leaves both tables as they were,
\* and the request had removed nothing before it; a job stored with zero
\* entries stays in both tables whatever is retrieved.
C30_FailedRetrievalChangesNothing ==
  [][/\ \A h \in Handlers :
          ( /\ handler[h].pc # "respond"
            /\ handler'[h].pc = "respond"
            /\ handler'[h].op = "download"
            /\ handler'[h].resp.code # 200 )
          => /\ processing_status' = processing_status
             /\ processing_results' = processing_results
             /\ handler[h].pc \in {"idle", "download_read", "render",
                                   "del_results"}
     /\ \A j \in DOMAIN processing_results :
          processing_results[j] = <<>>
            => /\ Has(processing_results', j)
               /\ processing_results'[j] = <<>>
               /\ Has(processing_status, j) => Has(processing_status', j)]_vars

\* the rendering failed and the job is still in both tables
C30_Witness ==
  \E h \in Handlers :
    /\ Responding(h, "download")
    /\ Outcome(handler[h].resp) = <<500, "AttributeError">>
    /\ Has(processing_status, handler[h].job_id)
    /\ Has(processing_results, handler[h].job_id)
    /\ processing_results[handler[h].job_id] # <<>>

\* two handlers hold the answers to retrievals of the same job, which was
\* 'completed' with a non-empty result when each of them came in
BothRetrieved(h1, h2) ==
  /\ h1 # h2
  /\ Responding(h1, "download") /\ Responding(h2, "download")
  /\ handler[h1].job_id = handler[h2].job_id
  /\ handler[h1].status0 = "completed" /\ handler[h2].status0 = "completed"
  /\ handler[h1].stored0 >= 1 /\ handler[h2].stored0 >= 1

\* C31: of two concurrent retrievals of a completed job with entries at most
\* one is answered with the spreadsheet, and when both are answered the id
\* has neither a status record nor a result.
C31_TwoRetrievals ==
  \A h1, h2 \in Handlers :
    BothRetrieved(h1, h2)
    => /\ ~(handler[h1].resp.code = 200 /\ handler[h2].resp.code = 200)
       /\ ~Has(processing_status, handler[h1].job_id)
       /\ ~Has(processing_results, handler[h1].job_id)

\* the inference calls made so far for the document a task is working on
Calls(t) == Cardinality({ k \in 1..Len(t.log) : t.log[k].called })

\* the batches of that document left without a call: their encoding raised
NotSent(t) == Cardinality({ k \in 1..Len(t.log) : ~t.log[k].called })

\* the batch loop of the task's document is over
LoopOver(t) ==
  \/ t.pc = "batch" /\ t.i >= t.images
  \/ t.pc \in {"images_load", "images_store"}

\* C32 as stated: a document with N images has had exactly ceil(N/4)
\* inference calls when its batch loop is over, whatever the iterations met.
C32_ExactlyCeilCalls ==
  \A j \in JobIds :
    LoopOver(task[j]) => Calls(task[j]) = CeilDiv(task[j].images, batch_size)

\* C32: no batch is tried twice and none gets more than one call: after k
\* iterations the loop is at offset 4k with k outcomes, each of them the one
\* call of its batch or an encoding that raised before the call, so that when
\* the loop is over the calls are ceil(N/4) less the batches not sent, and
\* ceil(N/4) when every batch was encoded.
C32_OneCallPerSentBatch ==
  \A j \in JobIds :
    LET t == task[j] IN
      /\ t.i = Len(t.log) * batch_size
      /\ Len(t.log) = Len(t.batches)
      /\ Len(t.log) <= CeilDiv(t.images, batch_size)
      /\ \A k \in 1..Len(t.log) : ~t.log[k].called => t.log[k].raised
      /\ LoopOver(t) =>
           /\ Len(t.log) = CeilDiv(t.images, batch_size)
           /\ Calls(t) = CeilDiv(t.images, batch_size) - NotSent(t)

\* a document of five images whose first call raised and whose second call
\* answered: two calls, the first not repeated
C32_Witness ==
  \E j \in JobIds :
    LET t == task[j] IN
      /\ LoopOver(t)
      /\ t.images = 5
      /\ Len(t.log) = 2
      /\ t.log[1].called /\ t.log[1].raised
      /\ t.log[2].called /\ ~t.log[2].raised
      /\ Calls(t) = 2

\* the entries stored for job j came out of calls made by j's own thread for
\* j's own documents, and are labelled with the document they came from
OwnEntries(j) ==
  \A e \in Range(processing_results[j]) :
    /\ e.job = j
    /\ e.file \in 1..Len(task[j].files)
    /\ e.source_file = task[j].files[e.file]

\* a step of the thread of job k leaves the records of every other job alone
OthersUntouched ==
  \A j, k \in JobIds :
    (j # k /\ task'[k] # task[k])
    => /\ Has(processing_status', j) = Has(processing_status, j)
       /\ Has(processing_status, j) =>
            processing_status'[j] = processing_status[j]
       /\ Has(processing_results', j) = Has(processing_results, j)
       /\ Has(processing_results, j) =>
            processing_results'[j] = processing_results[j]

\* C33: with several jobs running at once, no step of one job's thread
\* changes the status record or the stored result of another job, and a
\* stored result holds only entries extracted from its own job's documents.
C33_JobsDoNotInterfere ==
  /\ [](\A j \in DOMAIN processing_results : OwnEntries(j))
  /\ [][OthersUntouched]_vars

\* two threads alive at once, each having stored entries for its job
C33_Witness ==
  /\ \A j \in {1, 2} :
       /\ task[j].pc \notin {"unborn", "done"}
       /\ Has(processing_results, j)
       /\ processing_results[j] # <<>>
       /\ Has(processing_status, j)

====
